---- MODULE Spec2Model ----
(***************************************************************************)
(* Bootstrap coefficient cache of src/main.py (cte_boostrap).              *)
(*                                                                         *)
(* A DataFrame is [cols : set of column names, order : the columns in the  *)
(* order of the frame, rows : sequence of functions cols -> value]; a      *)
(* Series is a function from its index to values; a file is                *)
(* [kind, cols, order, rows] with kind "absent" (no file), "empty" (zero   *)
(* bytes) or "csv".  to_csv writes the file line by line, the columns in   *)
(* the order of the frame; a write reaches the file page by page, and the  *)
(* last line of a file whose writer was terminated inside a write ends at  *)
(* a page boundary and lacks its last fields.                              *)
(* Coefficients are integers; the numerical routines are modelled on an    *)
(* orthonormal design, where the lasso is the soft threshold of the        *)
(* least-squares coefficient and the refit returns that coefficient.       *)
(***************************************************************************)
EXTENDS Integers, Sequences, FiniteSets, TLC

\* ---------------------------------------------------------------- bounds
num_bootstrap_samples == 3
MaxRuns == 2

\* Number of runs of one behaviour that are terminated from outside.
MaxKills == 1

\* Number of seeds of the longer cache that one run extends by one seed.
LongCache == 10

\* Number of csv fields that fit in one page of the file.
PageSize == 3

\* -------------------------------------------------------------- constants
NaN == -999
SeedCol == "seed"
FileIndexHeader == ""
IndexCol == "Unnamed: 0"
UnnamedCols == {"Unnamed: 0", "Unnamed: 0.1"}
InteractionCols == {"a_interaction"}
DataSets == 1 .. 4
TopLevelSeed == 186

\* old_data_path and bootstrapped_data_path of one response.
old_data_path == "results/old/coeffs.csv"
bootstrapped_data_path == "results/bootstrap/coeffs.csv"

\* A write that goes to the legacy path.
to_csv_path_old == old_data_path

\* coeffs.to_csv(bootstrapped_data_path): the path that line 100 writes.
to_csv_path == bootstrapped_data_path

\* np.random.seed(s): the state of the shared generator after seeding.
np_random_seed(r, s) == [seed |-> s, used |-> 0]

\* np.random.randint(0, high = n, size = n): one draw from the generator.
randint(r) == [r EXCEPT !.used = @ + 1]

\* States of the shared generator when cte_boostrap is entered.
EntryRng == {[seed |-> TopLevelSeed, used |-> 0], [seed |-> 7, used |-> 2]}

\* ------------------------------------------------- data provider (external)
\* Columns of the design matrix returned by pull_classroom_data.
Xcols == {"a", "b", "a_interaction"}

\* Least-squares coefficient of column c on the bootstrap resample drawn
\* with np.random.seed(bb) from data set d.
Z(d, bb, c) ==
  CASE c = "a" -> 3 + bb
    [] c = "b" -> IF bb % 2 = 0 THEN 1 ELSE -3
    [] c = "a_interaction" -> 2 - bb
    [] OTHER -> 0

\* ------------------------------------------------------------ grid search
\* full_grid_search(X, y, grid_size = 5): the pair (l1, l2), already divided
\* by n.  Data set 2 is penalised so heavily that nothing is selected.
full_grid_search(d) == IF d = 2 THEN <<9, 9>> ELSE <<2, 1>>

\* full_grid_search raises (data set 4).
GridSearchRaises(d) == d = 4

\* fit_regularized raises on the resample of seed bb (data set 3, seed 1).
FitRegularizedRaises(d, bb) == d = 3 /\ bb = 1

\* OLS(...).fit() raises on the resample of seed bb restricted to S.
\* An empty S raises or not depending on the numpy/statsmodels build (e).
OLSFitRaises(d, e, bb, S) == (d = 3 /\ bb = 2) \/ (S = {} /\ e)

\* --------------------------------------------------------------- helpers
Abs(x) == IF x < 0 THEN -x ELSE x
Sign(x) == IF x < 0 THEN -1 ELSE IF x > 0 THEN 1 ELSE 0

EmptyDF == [cols |-> {}, order |-> <<>>, rows |-> <<>>]
NoFile == [kind |-> "absent", cols |-> {}, order |-> <<>>, rows |-> <<>>]
EmptyFile == [kind |-> "empty", cols |-> {}, order |-> <<>>, rows |-> <<>>]
EmptySeries == [c \in {} |-> 0]

\* Alignment of a row or Series on a column set; missing cells are NaN.
Reindex(s, cols) == [c \in cols |-> IF c \in DOMAIN s THEN s[c] ELSE NaN]

\* coeffs['seed'].unique()
SeedsOf(df) == {df.rows[i][SeedCol] : i \in 1 .. Len(df.rows)}

\* The name read_csv gives to a header field that repeats an earlier one.
Mangled(c) ==
  CASE c = "a_inter" -> "a_inter.1"
    [] c = "z" -> "z.1"
    [] OTHER -> c

\* pd.read_csv: the columns in the order of the header; the header-less
\* index column is named "Unnamed: 0"; a line with fewer fields than the
\* header is filled with NaN.
read_csv(f) ==
  LET Name(k) ==
        IF f.order[k] = FileIndexHeader THEN IndexCol
        ELSE IF \E i \in 1 .. (k - 1) : f.order[i] = f.order[k]
        THEN Mangled(f.order[k])
        ELSE f.order[k]
      order == [k \in 1 .. Len(f.order) |-> Name(k)]
      cols == {order[k] : k \in 1 .. Len(order)}
      Field(r, c) == IF c \in DOMAIN r THEN r[c] ELSE NaN
      Row(r) == [c \in cols |->
                   IF c = IndexCol /\ FileIndexHeader \in f.cols
                   THEN Field(r, FileIndexHeader) ELSE Field(r, c)]
  IN [cols |-> cols, order |-> order,
      rows |-> [i \in 1 .. Len(f.rows) |-> Row(f.rows[i])]]

\* to_drop = [c for c in coeffs.columns if 'Unnamed' in c]; coeffs.drop(...)
DropUnnamed(df) ==
  LET keep == df.cols \ UnnamedCols
  IN [cols |-> keep,
      order |-> SelectSeq(df.order, LAMBDA c : c \in keep),
      rows |-> [i \in 1 .. Len(df.rows) |-> [c \in keep |-> df.rows[i][c]]]]

\* DataFrame.to_csv(path): the index column, then every column in the order
\* of the frame.
to_csv(df) ==
  [kind |-> "csv",
   cols |-> df.cols \cup {FileIndexHeader},
   order |-> <<FileIndexHeader>> \o df.order,
   rows |-> [i \in 1 .. Len(df.rows) |->
               [c \in df.cols \cup {FileIndexHeader} |->
                  IF c = FileIndexHeader THEN i - 1 ELSE df.rows[i][c]]]]

\* The column labels of the model in the order of sorted(): the labels of
\* the frames and the labels read from a header that a page boundary cut.
Alphabetical ==
  <<"a", "a_inter", "a_inter.1", "a_interaction", "b", "se", "seed", "z",
    "z.1", "zz">>

\* Index.difference returns the new labels sorted.
Sorted(S) == SelectSeq(Alphabetical, LAMBDA c : c \in S)

\* What is left of a column name when a page of the file ends inside it.
CutName(c) ==
  CASE c = "a_interaction" -> "a_inter"
    [] c = SeedCol -> "se"
    [] c = "zz" -> "z"
    [] OTHER -> c

\* What read_csv parses from a number when a page of the file ends inside
\* it, after its first digit.
RECURSIVE CutNumber(_)
CutNumber(v) ==
  IF v = NaN THEN NaN
  ELSE IF v >= 10 THEN CutNumber(v \div 10)
  ELSE IF v <= -10 THEN CutNumber(-((-v) \div 10))
  ELSE v

\* Number of fields of the csv text of target that the lines of file f hold:
\* none when f has zero bytes, else the header and the rows of f.
FieldsOnDisk(f, target) ==
  IF f.kind = "empty" THEN 0
  ELSE Len(target.order) * (1 + Len(f.rows))

\* The file f followed by the first j fields of the next line of the csv
\* text of target, the page ending inside the j-th of them: the header when
\* f has zero bytes, the next row otherwise.
Torn(f, target, j) ==
  LET names == [k \in 1 .. j |->
                  IF k = j THEN CutName(target.order[k])
                  ELSE target.order[k]]
      row == target.rows[Len(f.rows) + 1]
      part == [c \in {target.order[k] : k \in 1 .. j} |->
                 IF c = target.order[j] THEN CutNumber(row[c]) ELSE row[c]]
  IN IF f.kind = "empty"
     THEN [kind |-> "csv", cols |-> {names[k] : k \in 1 .. j},
           order |-> names, rows |-> <<>>]
     ELSE [f EXCEPT !.rows = Append(@, part)]

\* A load that keeps the seeds of the file and drops its records.
LoadCacheSeedsOnly(f) ==
  IF f.kind = "csv" /\ SeedCol \in DropUnnamed(read_csv(f)).cols
  THEN [ok |-> TRUE, df |-> EmptyDF,
        pre |-> SeedsOf(DropUnnamed(read_csv(f)))]
  ELSE [ok |-> f.kind = "absent", df |-> EmptyDF, pre |-> {}]

\* Lines 35-42 / 45-52: load one cache file.
LoadCache(f) ==
  IF f.kind = "absent"
  THEN [ok |-> TRUE, df |-> EmptyDF, pre |-> {}]
  ELSE IF f.kind = "empty"
  THEN [ok |-> FALSE, df |-> EmptyDF, pre |-> {}]
  ELSE LET df == DropUnnamed(read_csv(f))
       IN IF SeedCol \notin df.cols
          THEN [ok |-> FALSE, df |-> EmptyDF, pre |-> {}]
          ELSE [ok |-> TRUE, df |-> df, pre |-> SeedsOf(df)]

\* A membership test that never matches (seeds compared as another type).
InPrecomputedNever(bb, pre) == bb \in {}

\* b in precomputed
InPrecomputed(bb, pre) == bb \in pre

\* b in old_precomputed
InOldPrecomputed(bb, oldpre) == bb \in oldpre

\* old_coeffs.loc[old_coeffs['seed'] == b].iloc[0] without 'seed'
LegacyParams(old, bb) ==
  LET hits == {i \in 1 .. Len(old.rows) : old.rows[i][SeedCol] = bb}
      first == CHOOSE i \in hits : \A j \in hits : i <= j
  IN [c \in old.cols \ {SeedCol} |-> old.rows[first][c]]

\* alpha = [l1/n if 'interaction' in c else l2/n for c in re_X.columns]
Alpha(d, c) == IF c \in InteractionCols THEN full_grid_search(d)[1]
               ELSE full_grid_search(d)[2]

\* model.fit_regularized(alpha = alpha, L1_wt = 1).params
fit_regularized(d, bb) ==
  [c \in Xcols |->
     IF Abs(Z(d, bb, c)) > Alpha(d, c)
     THEN Sign(Z(d, bb, c)) * (Abs(Z(d, bb, c)) - Alpha(d, c))
     ELSE 0]

\* A selection that keeps every column.
SelectedAll(rp) == DOMAIN rp

\* result_params[result_params != 0].index
Selected(rp) == {c \in DOMAIN rp : rp[c] # 0}

\* result_params[result_params == 0].index
Nonselected(rp) == {c \in DOMAIN rp : rp[c] = 0}

\* linear_model.OLS(re_y, re_X[selected]).fit().params
OLSFit(d, bb, S) == [c \in S |-> Z(d, bb, c)]

\* pd.concat([result_params[nonselected], selective_coeffs])
Concat(rp, nonsel, sc) ==
  [c \in nonsel \cup DOMAIN sc |-> IF c \in DOMAIN sc THEN sc[c] ELSE rp[c]]

\* new_coeffs['seed'] = int(b)
WithSeed(s, bb) ==
  [c \in DOMAIN s \cup {SeedCol} |-> IF c = SeedCol THEN bb ELSE s[c]]

\* coeffs.append(new_coeffs, ignore_index = True): the columns of the frame
\* keep their order and the labels that are new follow them, sorted.
append(df, s) ==
  LET cols == df.cols \cup DOMAIN s
  IN [cols |-> cols,
      order |-> df.order \o Sorted(DOMAIN s \ df.cols),
      rows |-> [i \in 1 .. Len(df.rows) |-> Reindex(df.rows[i], cols)]
               \o <<Reindex(s, cols)>>]

\* Lines 61-92 for one seed bb that is not precomputed: which routines are
\* invoked, whether one of them raises, and the record built on line 95-98.
Attempt(d, e, old, oldpre, bb) ==
  LET leg == InOldPrecomputed(bb, oldpre)
      gridFail == ~leg /\ GridSearchRaises(d)
      regFail == ~leg /\ ~gridFail /\ FitRegularizedRaises(d, bb)
      rp == IF leg THEN LegacyParams(old, bb) ELSE fit_regularized(d, bb)
      sel == Selected(rp)
      keyFail == ~gridFail /\ ~regFail /\ ~(sel \subseteq Xcols)
      reached == ~gridFail /\ ~regFail /\ ~keyFail
      olsFail == reached /\ OLSFitRaises(d, e, bb, sel)
  IN [exc |-> ~reached \/ olsFail,
      ok |-> reached /\ ~olsFail,
      legacy |-> leg,
      grid |-> ~leg,
      reg |-> ~leg /\ ~gridFail,
      refit |-> reached,
      rec |-> IF reached /\ ~olsFail
              THEN WithSeed(Concat(rp, Nonselected(rp), OLSFit(d, bb, sel)), bb)
              ELSE EmptySeries]

\* A loop body that catches the exception and stores an all-zero record.
IterationZeroOnError(d, e, old, oldpre, bb) ==
  LET at == Attempt(d, e, old, oldpre, bb)
  IN IF at.exc
     THEN [at EXCEPT !.ok = TRUE,
                     !.rec = WithSeed([c \in Xcols |-> 0], bb)]
     ELSE at

\* The loop body has no try/except: an exception raised by a routine leaves
\* cte_boostrap before line 98.
Iteration(d, e, old, oldpre, bb) == Attempt(d, e, old, oldpre, bb)

\* Lines 54-100 run without interruption from seed bb to seed n - 1, with
\* frame df, cached seeds pre and generator state r: the frame and the
\* generator state that the loop leaves, the seeds it appended, and whether
\* a routine raised.
RECURSIVE cte_boostrap_loop(_, _, _, _, _, _, _, _, _)
cte_boostrap_loop(df, pre, old, oldpre, d, e, r, bb, n) ==
  IF bb >= n
  THEN [exc |-> FALSE, df |-> df, rng |-> r, appended |-> {}]
  ELSE IF InPrecomputed(bb, pre)
  THEN cte_boostrap_loop(df, pre, old, oldpre, d, e, r, bb + 1, n)
  ELSE LET it == Iteration(d, e, old, oldpre, bb)
           r2 == randint(np_random_seed(r, bb))
       IN IF ~it.ok
          THEN [exc |-> TRUE, df |-> df, rng |-> r2, appended |-> {}]
          ELSE LET rest == cte_boostrap_loop(append(df, it.rec), pre, old,
                                             oldpre, d, e, r2, bb + 1, n)
               IN [rest EXCEPT !.appended = @ \cup {bb}]

\* Lines 24-100: one call of cte_boostrap that is not interrupted, on cache
\* file f and legacy file leg, with n bound to num_bootstrap_samples: the
\* cache file and the generator state that it leaves, and whether it raised.
cte_boostrap(f, leg, d, e, r, n) ==
  LET cur == LoadCache(f)
      lg == LoadCache(leg)
      res == cte_boostrap_loop(cur.df, cur.pre, lg.df, lg.pre, d, e, r, 0, n)
  IN IF ~(cur.ok /\ lg.ok)
     THEN [exc |-> TRUE, file |-> f, rng |-> r]
     ELSE [exc |-> res.exc,
           file |-> IF res.appended = {} THEN f ELSE to_csv(res.df),
           rng |-> res.rng]

\* -------------------------------------------------------------- strings
\* A Python str is the sequence of its characters.  A character up to
\* U+00FF is written as itself; the characters beyond that the model covers
\* are written by their code point.
KelvinSign == "U+212A"
AngstromSign == "U+212B"
DottedCapitalI == "U+0130"
CombiningDotAbove == "U+0307"

\* The cased characters of the model's alphabet (A-Z, the capital letters
\* of Latin-1, the Kelvin and Angstrom signs) and their lower-case forms.
UpperCase == <<"A", "B", "C", "D", "E", "F", "G", "H", "I", "J", "K", "L", "M",
               "N", "O", "P", "Q", "R", "S", "T", "U", "V", "W", "X", "Y", "Z",
               "À", "Á", "Â", "Ã", "Ä", "Å", "Æ", "Ç", "È", "É", "Ê", "Ë", "Ì",
               "Í", "Î", "Ï", "Ð", "Ñ", "Ò", "Ó", "Ô", "Õ", "Ö", "Ø", "Ù", "Ú",
               "Û", "Ü", "Ý", "Þ", KelvinSign, AngstromSign>>
LowerCase == <<"a", "b", "c", "d", "e", "f", "g", "h", "i", "j", "k", "l", "m",
               "n", "o", "p", "q", "r", "s", "t", "u", "v", "w", "x", "y", "z",
               "à", "á", "â", "ã", "ä", "å", "æ", "ç", "è", "é", "ê", "ë", "ì",
               "í", "î", "ï", "ð", "ñ", "ò", "ó", "ô", "õ", "ö", "ø", "ù", "ú",
               "û", "ü", "ý", "þ", "k", "å">>

\* The lower-case form of one character: a str of one character, or of two
\* for U+0130.
LowerOf(c) ==
  IF c = DottedCapitalI THEN <<"i", CombiningDotAbove>>
  ELSE IF \E k \in 1 .. Len(UpperCase) : UpperCase[k] = c
  THEN <<LowerCase[CHOOSE k \in 1 .. Len(UpperCase) : UpperCase[k] = c]>>
  ELSE <<c>>

\* str.lower()
RECURSIVE lower(_)
lower(s) == IF s = <<>> THEN <<>> ELSE LowerOf(Head(s)) \o lower(Tail(s))

\* t in s, for two str
In(t, s) ==
  \E i \in 0 .. (Len(s) - Len(t)) : SubSeq(s, i + 1, i + Len(t)) = t

\* Lines 13-22: str2bool(v) for a str v; ok is FALSE when it raises
\* argparse.ArgumentTypeError.
str2bool(v) ==
  IF lower(v) \in { <<"y", "e", "s">>,
                   <<"t", "r", "u", "e">>,
                   <<"t">>,
                   <<"y">>,
                   <<"1">> }
  THEN [ok |-> TRUE, val |-> TRUE]
  ELSE IF lower(v) \in { <<"n", "o">>,
                        <<"f", "a", "l", "s", "e">>,
                        <<"f">>,
                        <<"n">>,
                        <<"0">> }
  THEN [ok |-> TRUE, val |-> FALSE]
  ELSE [ok |-> FALSE, val |-> FALSE]

\* Lines 143-146: the four survey categories.
AllResponses == <<"Yr04_print_knowledge", "Yr04_literacy_resources",
                  "Yr04_oral_language", "Yr04_print_motivation">>
ResponseNames == {AllResponses[i] : i \in 1 .. 4}

\* A resolution that tests 'literacy' before 'oral'.
ResolveLiteracyFirst(response) ==
  IF response = <<"a", "l", "l">>
  THEN [ok |-> TRUE, responses |-> AllResponses]
  ELSE IF In(<<"l", "i", "t", "e", "r", "a", "c", "y">>, response)
  THEN [ok |-> TRUE, responses |-> <<"Yr04_literacy_resources">>]
  ELSE IF In(<<"o", "r", "a", "l">>, response)
  THEN [ok |-> TRUE, responses |-> <<"Yr04_oral_language">>]
  ELSE IF In(<<"p", "r", "i", "n", "t">>, response) /\ In(<<"k", "n", "o", "w", "l", "e", "d", "g", "e">>, response)
  THEN [ok |-> TRUE, responses |-> <<"Yr04_print_knowledge">>]
  ELSE IF In(<<"p", "r", "i", "n", "t">>, response) /\ In(<<"m", "o", "t", "i", "v", "a", "t", "i", "o", "n">>, response)
  THEN [ok |-> TRUE, responses |-> <<"Yr04_print_motivation">>]
  ELSE [ok |-> FALSE, responses |-> <<>>]

\* Lines 142-156: the responses for the lower-cased --response argument; ok
\* is FALSE when ValueError is raised.
Resolve(response) ==
  IF response = <<"a", "l", "l">>
  THEN [ok |-> TRUE, responses |-> AllResponses]
  ELSE IF In(<<"o", "r", "a", "l">>, response)
  THEN [ok |-> TRUE, responses |-> <<"Yr04_oral_language">>]
  ELSE IF In(<<"l", "i", "t", "e", "r", "a", "c", "y">>, response)
  THEN [ok |-> TRUE, responses |-> <<"Yr04_literacy_resources">>]
  ELSE IF In(<<"p", "r", "i", "n", "t">>, response) /\ In(<<"k", "n", "o", "w", "l", "e", "d", "g", "e">>, response)
  THEN [ok |-> TRUE, responses |-> <<"Yr04_print_knowledge">>]
  ELSE IF In(<<"p", "r", "i", "n", "t">>, response) /\ In(<<"m", "o", "t", "i", "v", "a", "t", "i", "o", "n">>, response)
  THEN [ok |-> TRUE, responses |-> <<"Yr04_print_motivation">>]
  ELSE [ok |-> FALSE, responses |-> <<>>]

\* Values of --refit and --bootstrap on the command line.
FlagInputs ==
  { <<"F", "a", "l", "s", "e">>,
  <<"t", "r", "u", "e">>,
  <<"Y">>,
  <<"0">>,
  <<"m", "a", "y", "b", "e">> }

\* Values of --response on the command line.
ResponseInputs ==
  { <<"a", "l", "l">>,
  <<"A", "L", "L">>,
  <<"o", "r", "a", "l">>,
  <<"l", "a", "n", "g", "u", "a", "g", "e">>,
  <<"L", "i", "t", "e", "r", "a", "c", "y">>,
  <<"p", "r", "i", "n", "t">>,
  <<"k", "n", "o", "w", "l", "e", "d", "g", "e", " ", "p", "r", "i", "n", "t">>,
  <<"p", "r", "i", "n", "t", "_", "m", "o", "t", "i", "v", "a", "t", "i", "o", "n">>,
  <<"Y", "r", "0", "4", "_", "p", "r", "i", "n", "t", "_", "k", "n", "o", "w", "l", "e", "d", "g", "e">>,
  <<"o", "r", "a", "l", " ", "l", "i", "t", "e", "r", "a", "c", "y">>,
  <<"o", "r", "a", "l", " ", "e", "x", "a", "m">>,
  <<"x", "y", "z">>,
  <<"p", "r", "i", "n", "t", " ", KelvinSign, "n", "o", "w", "l", "e", "d", "g", "e">>,
  <<"É", "C", "O", "L", "E">>,
  <<DottedCapitalI, "Ö">>,
  <<>> }

\* Names bound at module level in main.py (imports and defs).  The name
\* num_bootstrap_samples that line 54 reads is not among them: line 162
\* binds it as a local of main.
ModuleGlobals ==
  {"os", "np", "pd", "linear_model", "pull_classroom_data",
   "pull_student_data", "PostSelectiveLasso", "full_grid_search", "sys",
   "argparse", "str2bool", "cte_boostrap", "main"}

\* A refit branch that is always taken.
TakesRefitBranchAlways(refit) == TRUE

\* Lines 167-171: 'if not refit: read ... else: refit'.
TakesRefitBranch(refit) == refit

\* PostSelectiveLasso(X, y, l1, l2).fit() raises (data set 3).
PostSelectiveLassoRaises(d) == d = 3

\* Results tables results/<response>.csv before main runs: all present, or
\* only the first one.
TableStates ==
  { [r \in ResponseNames |-> "old"],
    [r \in ResponseNames |->
       IF r = "Yr04_print_knowledge" THEN "old" ELSE "absent"] }

NoCalls == [r \in ResponseNames |-> 0]

\* ------------------------------------------------------------ input files
Row3(a, bv, ai, s) ==
  ("a" :> a) @@ ("b" :> bv) @@ ("a_interaction" :> ai) @@ (SeedCol :> s)

RowZ(a, zz, s) == ("a" :> a) @@ ("zz" :> zz) @@ (SeedCol :> s)

DF3(rows) ==
  [cols |-> Xcols \cup {SeedCol},
   order |-> <<"a", "a_interaction", "b", SeedCol>>, rows |-> rows]
DFZ(rows) ==
  [cols |-> {"a", "zz", SeedCol}, order |-> <<"a", "zz", SeedCol>>,
   rows |-> rows]

\* Legacy cache files results/old/<response>_bootstrap_coeffs.csv: none;
\* one seed; seeds 0 and 2 with seed 0 twice; an all-zero record; a file
\* written for another predictor set.
LegacyFiles ==
  { NoFile,
    to_csv(DF3(<<Row3(2, 0, 0, 1)>>)),
    to_csv(DF3(<<Row3(5, -1, 0, 0), Row3(0, 0, 7, 2), Row3(1, 1, 1, 0)>>)),
    to_csv(DF3(<<Row3(0, 0, 0, 0)>>)),
    to_csv(DFZ(<<RowZ(2, 0, 0), RowZ(1, 4, 2)>>)) }

\* The cache file that an uninterrupted run over [0, LongCache) writes from
\* an empty cache, on data set 1 and without a legacy cache.
LongCacheFile ==
  to_csv(cte_boostrap_loop(EmptyDF, {}, EmptyDF, {}, 1, FALSE,
                           [seed |-> TopLevelSeed, used |-> 0], 0,
                           LongCache).df)

\* Current cache file before the first run: none; a file written for another
\* predictor set; a file without a seed column.
InitialFiles ==
  { NoFile,
    to_csv(DFZ(<<RowZ(6, 8, 0)>>)),
    to_csv([cols |-> {"a"}, order |-> <<"a">>, rows |-> <<("a" :> 1)>>]) }

\* ------------------------------------------------------------------ state
VARIABLES
  data,            \* the data set returned by pull_classroom_data
  eor,             \* this build's OLS raises on an empty column set
  legacy,          \* results/old/<response>_bootstrap_coeffs.csv
  initDisk,        \* the current cache file before the first run
  disk,            \* results/bootstrap/<response>_bootstrap_coeffs.csv
  coeffs, precomputed, old_coeffs, old_precomputed, b,
  pc,              \* "idle", "loop", "write", "done", "failed",
                   \* "loaderror", "nameerror", "killed"
  runs,            \* number of runs started
  kills,           \* number of runs that were terminated
  resampled, gridCalls, regCalls, refitCalls, appended,
                   \* seeds of this run for which each step was invoked
  raised,          \* seeds of this run for which a routine raised
  lastRec,         \* the Series appended last in this run
  diskAtStart,     \* the cache file when this run started
  good,            \* the cache file when the engine was last between seeds
  everPersisted,   \* seeds whose record was ever completely persisted
  rng,             \* state of the shared generator np.random
  rngSeen,         \* seed -> generator state its grid search and fits saw
  num_samples,     \* the value bound to num_bootstrap_samples for the run
  entry,           \* the function the process runs: "cte_boostrap" or "main"
  mpc,             \* main: "idle", "loop", "boot", "done", "error"
  args,            \* main: parsed refit, bootstrap and the --response string
  responses,       \* main: the resolved list of responses
  ri,              \* main: index in responses of the current response
  tables,          \* results/<response>.csv: "absent", "old" or "new"
  tables0,         \* the results tables when main started
  mGrid, mFit,     \* main: response -> number of grid searches, of fits
  mSeen,           \* main: response -> generator state its grid search saw
  processed,       \* main: responses whose refit-or-read step has completed
  bootInvoked,     \* main: responses for which cte_boostrap was entered
  caches,          \* main: response -> its current cache file; when
                   \* cte_boostrap is entered directly, disk is the file
  merr,            \* main: the exception that ended main, or "none"
  module_globals   \* names bound in the module namespace of main.py

params == <<data, eor, initDisk, entry, module_globals, num_samples>>
inputs == <<data, eor, legacy, initDisk, entry, module_globals, num_samples>>
mainvars == <<mpc, args, responses, ri, tables, tables0, mGrid, mFit, mSeen,
              processed, bootInvoked, merr, caches>>
enginevars == <<disk, coeffs, precomputed, old_coeffs, old_precomputed, b,
                pc, runs, resampled, gridCalls, regCalls, refitCalls,
                raised, appended, lastRec, diskAtStart, good,
                everPersisted, rngSeen, kills>>
loaded == <<coeffs, precomputed, old_coeffs, old_precomputed>>
calls == <<resampled, gridCalls, regCalls, refitCalls, raised>>
vars == <<data, eor, legacy, initDisk, disk, coeffs, precomputed,
          old_coeffs, old_precomputed, b, pc, runs, resampled, gridCalls,
          regCalls, refitCalls, raised, appended, lastRec, diskAtStart,
          good, everPersisted, rng, rngSeen, entry, mpc, args, responses, ri,
          tables, tables0, mGrid, mFit, mSeen, processed, bootInvoked, merr,
          module_globals, num_samples, caches, kills>>

\* Cache files present when main is run: the legacy file, and the current
\* cache file of every response (none, or one that holds every seed).
MainLegacyFiles == {NoFile, to_csv(DF3(<<Row3(2, 0, 0, 1)>>))}
MainInitialFiles ==
  { NoFile,
    to_csv(DF3([k \in 1 .. num_bootstrap_samples |-> Row3(3, 0, 0, k - 1)])) }

NoArgs == [refit |-> FALSE, bootstrap |-> FALSE, response |-> <<>>]

\* The module namespace when cte_boostrap is called: as main.py leaves it,
\* or with num_bootstrap_samples bound in it by the caller.
EngineGlobals == {ModuleGlobals, ModuleGlobals \cup {"num_bootstrap_samples"}}

\* The module namespace when main is called: as main.py leaves it, or with
\* cte_bootstrap bound to cte_boostrap by the caller, or with
\* num_bootstrap_samples bound as well.
MainGlobals ==
  { ModuleGlobals,
    ModuleGlobals \cup {"cte_bootstrap"},
    ModuleGlobals \cup {"cte_bootstrap", "num_bootstrap_samples"} }

Init ==
  /\ entry \in {"cte_boostrap", "main"}
  /\ module_globals \in IF entry = "main" THEN MainGlobals
                        ELSE EngineGlobals
  /\ data \in DataSets
  /\ eor \in IF entry = "main" THEN {FALSE} ELSE BOOLEAN
  /\ legacy \in IF entry = "main" THEN MainLegacyFiles ELSE LegacyFiles
  /\ rng \in IF entry = "main" THEN {[seed |-> 7, used |-> 2]} ELSE EntryRng
  /\ initDisk \in IF entry = "main" THEN MainInitialFiles
                  ELSE IF /\ data = 1 /\ ~eor /\ legacy = NoFile
                          /\ "num_bootstrap_samples" \in module_globals
                          /\ rng.seed = TopLevelSeed
                  THEN InitialFiles \cup {LongCacheFile}
                  ELSE InitialFiles
  /\ num_samples = IF initDisk = LongCacheFile THEN LongCache + 1
                   ELSE num_bootstrap_samples
  /\ caches = IF entry = "main" THEN [r \in ResponseNames |-> initDisk]
              ELSE <<>>
  /\ mpc = "idle" /\ args = NoArgs /\ responses = <<>> /\ ri = 0
  /\ tables = [r \in ResponseNames |-> "old"]
  /\ tables0 = [r \in ResponseNames |-> "old"]
  /\ mGrid = NoCalls /\ mFit = NoCalls /\ mSeen = <<>>
  /\ processed = {} /\ bootInvoked = {} /\ merr = "none"
  /\ disk = initDisk
  /\ coeffs = EmptyDF /\ precomputed = {}
  /\ old_coeffs = EmptyDF /\ old_precomputed = {}
  /\ b = 0 /\ pc = "idle" /\ runs = 0 /\ kills = 0
  /\ resampled = {} /\ gridCalls = {} /\ regCalls = {} /\ refitCalls = {}
  /\ raised = {}
  /\ appended = {} /\ lastRec = EmptySeries
  /\ diskAtStart = initDisk /\ good = initDisk
  /\ everPersisted = {}
  /\ rngSeen = <<>>

\* Lines 27-54: a run of cte_boostrap starts and loads both caches; then
\* line 54 evaluates range(num_bootstrap_samples), which raises NameError
\* when the name is not bound in the module namespace.
Start ==
  /\ entry = "cte_boostrap"
  /\ pc \in {"idle", "done", "failed", "loaderror", "nameerror", "killed"}
  /\ runs < MaxRuns
  /\ runs' = runs + 1
  /\ LET cur == LoadCache(disk)
         leg == LoadCache(legacy)
     IN /\ pc' = IF ~(cur.ok /\ leg.ok) THEN "loaderror"
                 ELSE IF "num_bootstrap_samples" \notin module_globals
                 THEN "nameerror"
                 ELSE "loop"
        /\ coeffs' = cur.df
        /\ precomputed' = cur.pre
        /\ old_coeffs' = leg.df
        /\ old_precomputed' = leg.pre
        /\ everPersisted' = everPersisted \cup cur.pre
  /\ b' = 0
  /\ resampled' = {} /\ gridCalls' = {} /\ regCalls' = {} /\ refitCalls' = {}
  /\ raised' = {}
  /\ appended' = {} /\ lastRec' = EmptySeries
  /\ diskAtStart' = disk /\ good' = disk
  /\ rngSeen' = <<>>
  /\ UNCHANGED <<inputs, disk, rng>>
  /\ UNCHANGED <<mainvars, kills>>

\* Lines 56-57: the seed is in the current cache.
SkipSeed ==
  /\ pc = "loop" /\ b < num_samples
  /\ InPrecomputed(b, precomputed)
  /\ b' = b + 1
  /\ UNCHANGED <<inputs, disk, loaded, pc, runs, calls, appended, lastRec,
                 diskAtStart, good, everPersisted, rng, rngSeen>>
  /\ UNCHANGED <<mainvars, kills>>

\* The routines invoked for seed b are recorded.
Invoke(it) ==
  /\ resampled' = resampled \cup {b}
  /\ gridCalls' = IF it.grid THEN gridCalls \cup {b} ELSE gridCalls
  /\ regCalls' = IF it.reg THEN regCalls \cup {b} ELSE regCalls
  /\ refitCalls' = IF it.refit THEN refitCalls \cup {b} ELSE refitCalls
  /\ raised' = IF it.exc THEN raised \cup {b} ELSE raised
  /\ rng' = randint(np_random_seed(rng, b))
  /\ rngSeen' = IF it.grid \/ it.refit
                THEN (b :> rng') @@ rngSeen
                ELSE rngSeen

\* The file at a path, and a write of file f to a path.
FileAt(path) == IF path = bootstrapped_data_path THEN disk ELSE legacy

WriteFile(path, f) ==
  /\ disk' = IF path = bootstrapped_data_path THEN f ELSE disk
  /\ legacy' = IF path = old_data_path THEN f ELSE legacy

\* Lines 98-100 up to the opening of the file, which truncates it.
AppendAndOpen(it) ==
  /\ coeffs' = append(coeffs, it.rec)
  /\ appended' = appended \cup {b}
  /\ lastRec' = it.rec
  /\ WriteFile(to_csv_path, EmptyFile)
  /\ pc' = "write"

\* Lines 61-70, 86-100: the seed is taken from the legacy cache.
LegacySeed ==
  /\ pc = "loop" /\ b < num_samples
  /\ ~InPrecomputed(b, precomputed)
  /\ LET it == Iteration(data, eor, old_coeffs, old_precomputed, b)
     IN /\ it.ok /\ it.legacy
        /\ Invoke(it)
        /\ AppendAndOpen(it)
  /\ UNCHANGED <<params, precomputed, old_coeffs, old_precomputed, b, runs,
                 diskAtStart, good, everPersisted>>
  /\ UNCHANGED <<mainvars, kills>>

\* Lines 61-65, 72-100: the seed is computed.
ComputeSeed ==
  /\ pc = "loop" /\ b < num_samples
  /\ ~InPrecomputed(b, precomputed)
  /\ LET it == Iteration(data, eor, old_coeffs, old_precomputed, b)
     IN /\ it.ok /\ ~it.legacy
        /\ Invoke(it)
        /\ AppendAndOpen(it)
  /\ UNCHANGED <<params, precomputed, old_coeffs, old_precomputed, b, runs,
                 diskAtStart, good, everPersisted>>
  /\ UNCHANGED <<mainvars, kills>>

\* Lines 61-92: a routine raises; the exception leaves cte_boostrap.
SeedRaises ==
  /\ pc = "loop" /\ b < num_samples
  /\ ~InPrecomputed(b, precomputed)
  /\ LET it == Iteration(data, eor, old_coeffs, old_precomputed, b)
     IN /\ ~it.ok
        /\ Invoke(it)
  /\ pc' = "failed"
  /\ UNCHANGED <<inputs, disk, loaded, b, runs, appended, lastRec,
                 diskAtStart, good, everPersisted>>
  /\ UNCHANGED <<mainvars, kills>>

\* Line 100: to_csv writes the header line.
ToCsvHeader ==
  /\ pc = "write"
  /\ FileAt(to_csv_path).kind = "empty"
  /\ WriteFile(to_csv_path, [to_csv(coeffs) EXCEPT !.rows = <<>>])
  /\ UNCHANGED <<params, loaded, b, pc, runs, calls, appended, lastRec,
                 diskAtStart, good, everPersisted, rng, rngSeen>>
  /\ UNCHANGED <<mainvars, kills>>

\* Line 100: to_csv writes the next row; after the last row the file is
\* closed and the loop goes on to the next seed.
ToCsvRow ==
  /\ pc = "write"
  /\ FileAt(to_csv_path).kind = "csv"
  /\ LET target == to_csv(coeffs)
         k == Len(FileAt(to_csv_path).rows) + 1
         last == k = Len(target.rows)
     IN /\ WriteFile(to_csv_path,
                     [target EXCEPT !.rows = SubSeq(@, 1, k)])
        /\ pc' = IF last THEN "loop" ELSE "write"
        /\ b' = IF last THEN b + 1 ELSE b
        /\ good' = IF last THEN disk' ELSE good
        /\ everPersisted' = IF last THEN everPersisted \cup SeedsOf(coeffs)
                            ELSE everPersisted
  /\ UNCHANGED <<params, loaded, runs, calls, appended, lastRec, diskAtStart,
                 rng, rngSeen>>
  /\ UNCHANGED <<mainvars, kills>>

\* Line 54: range(num_bootstrap_samples) is exhausted.
LoopEnd ==
  /\ pc = "loop" /\ b = num_samples
  /\ pc' = "done"
  /\ UNCHANGED <<inputs, disk, loaded, b, runs, calls, appended, lastRec,
                 diskAtStart, good, everPersisted, rng, rngSeen>>
  /\ UNCHANGED <<mainvars, kills>>

\* The process is terminated while the run is in progress, between two
\* writes to the file.
Kill ==
  /\ pc \in {"loop", "write"}
  /\ kills < MaxKills
  /\ pc' = "killed"
  /\ kills' = kills + 1
  /\ UNCHANGED <<inputs, disk, loaded, b, runs, calls, appended, lastRec,
                 diskAtStart, good, everPersisted, rng, rngSeen>>
  /\ UNCHANGED mainvars

\* The process is terminated inside the write of a line of line 100.  The
\* lines before it are in the file; of the line itself the file holds the
\* pages that were complete, so it ends at a multiple of the page size that
\* falls inside the line, inside the j-th field of the line.
KillInWrite ==
  /\ pc = "write"
  /\ kills < MaxKills
  /\ LET target == to_csv(coeffs)
         f == FileAt(to_csv_path)
     IN \E j \in 1 .. Len(target.order) :
          /\ (FieldsOnDisk(f, target) + j) % PageSize = 0
          /\ WriteFile(to_csv_path, Torn(f, target, j))
  /\ pc' = "killed"
  /\ kills' = kills + 1
  /\ UNCHANGED <<params, loaded, b, runs, calls, appended, lastRec,
                 diskAtStart, good, everPersisted, rng, rngSeen>>
  /\ UNCHANGED mainvars

\* ------------------------------------------------------------------- main
\* Lines 103-162: the arguments are parsed, the response is resolved, the
\* generator is seeded.  The raw flags rf, bs and the raw response rs come
\* from the command line; tb are the results tables on disk.
MainParse ==
  /\ entry = "main" /\ mpc = "idle"
  /\ \E rf \in FlagInputs, bs \in FlagInputs, rs \in ResponseInputs,
        tb \in TableStates :
       LET f1 == str2bool(rf)
           f2 == str2bool(bs)
           res == Resolve(lower(rs))
           flagsOk == f1.ok /\ f2.ok
       IN /\ args' = [refit |-> flagsOk /\ f1.val,
                      bootstrap |-> flagsOk /\ f2.val,
                      response |-> rs]
          /\ merr' = IF ~flagsOk THEN "ArgumentTypeError"
                     ELSE IF ~res.ok THEN "ValueError" ELSE "none"
          /\ mpc' = IF flagsOk /\ res.ok THEN "loop" ELSE "error"
          /\ responses' = IF flagsOk THEN res.responses ELSE <<>>
          /\ ri' = IF flagsOk /\ res.ok THEN 1 ELSE 0
          /\ rng' = IF flagsOk /\ res.ok
                    THEN np_random_seed(rng, TopLevelSeed) ELSE rng
          /\ tables' = tb /\ tables0' = tb
  /\ UNCHANGED <<inputs, enginevars, mGrid, mFit, mSeen, processed,
                 bootInvoked>>
  /\ UNCHANGED caches

\* Lines 167-168: the results table of the response is read.
MainRead ==
  /\ mpc = "loop" /\ ri <= Len(responses)
  /\ ~TakesRefitBranch(args.refit)
  /\ IF tables[responses[ri]] = "absent"
     THEN /\ mpc' = "error" /\ merr' = "FileNotFoundError"
          /\ UNCHANGED processed
     ELSE /\ mpc' = "boot" /\ merr' = merr
          /\ processed' = processed \cup {responses[ri]}
  /\ UNCHANGED <<inputs, enginevars, rng, args, responses, ri, tables,
                 tables0, mGrid, mFit, mSeen, bootInvoked>>
  /\ UNCHANGED caches

\* Lines 171-180: grid search and fit on the full data, then the results
\* table is written.
MainRefit ==
  /\ mpc = "loop" /\ ri <= Len(responses)
  /\ TakesRefitBranch(args.refit)
  /\ ~GridSearchRaises(data) /\ ~PostSelectiveLassoRaises(data)
  /\ mGrid' = [mGrid EXCEPT ![responses[ri]] = @ + 1]
  /\ mFit' = [mFit EXCEPT ![responses[ri]] = @ + 1]
  /\ mSeen' = (responses[ri] :> rng) @@ mSeen
  /\ tables' = [tables EXCEPT ![responses[ri]] = "new"]
  /\ processed' = processed \cup {responses[ri]}
  /\ mpc' = "boot"
  /\ UNCHANGED <<inputs, enginevars, rng, args, responses, ri, tables0,
                 bootInvoked, merr>>
  /\ UNCHANGED caches

\* Lines 171-178: grid search or the fit raises; the exception leaves main.
MainRefitRaises ==
  /\ mpc = "loop" /\ ri <= Len(responses)
  /\ TakesRefitBranch(args.refit)
  /\ GridSearchRaises(data) \/ PostSelectiveLassoRaises(data)
  /\ mGrid' = [mGrid EXCEPT ![responses[ri]] = @ + 1]
  /\ mFit' = IF GridSearchRaises(data) THEN mFit
             ELSE [mFit EXCEPT ![responses[ri]] = @ + 1]
  /\ mSeen' = (responses[ri] :> rng) @@ mSeen
  /\ mpc' = "error" /\ merr' = "FitError"
  /\ UNCHANGED <<inputs, enginevars, rng, args, responses, ri, tables,
                 tables0, processed, bootInvoked>>
  /\ UNCHANGED caches

\* Line 182: the bootstrap flag is not set; the loop goes on.
MainNoBootstrap ==
  /\ mpc = "boot" /\ ~args.bootstrap
  /\ ri' = ri + 1
  /\ mpc' = "loop"
  /\ UNCHANGED <<inputs, enginevars, rng, args, responses, tables, tables0,
                 mGrid, mFit, mSeen, processed, bootInvoked, merr>>
  /\ UNCHANGED caches

\* Lines 182-184: cte_bootstrap(response = response).  The name is looked up
\* in the module globals; so is num_bootstrap_samples on line 54, which main
\* binds as a local only.  When both names are bound the call runs lines
\* 24-100 on the cache file of the response: it reseeds the shared generator
\* for every seed it computes and rewrites the cache file.
MainCallBootstrap ==
  /\ mpc = "boot" /\ args.bootstrap
  /\ LET r == responses[ri]
         call == cte_boostrap(caches[r], legacy, data, eor, rng, num_samples)
         loads == LoadCache(caches[r]).ok /\ LoadCache(legacy).ok
     IN IF "cte_bootstrap" \notin module_globals
        THEN /\ mpc' = "error" /\ merr' = "NameError"
             /\ UNCHANGED <<ri, bootInvoked, caches, rng>>
        ELSE /\ bootInvoked' = bootInvoked \cup {r}
             /\ IF ~loads
                THEN /\ mpc' = "error" /\ merr' = "LoadError"
                     /\ UNCHANGED <<ri, caches, rng>>
                ELSE IF "num_bootstrap_samples" \notin module_globals
                THEN /\ mpc' = "error" /\ merr' = "NameError"
                     /\ UNCHANGED <<ri, caches, rng>>
                ELSE /\ caches' = [caches EXCEPT ![r] = call.file]
                     /\ rng' = call.rng
                     /\ IF call.exc
                        THEN mpc' = "error" /\ merr' = "EngineError" /\ ri' = ri
                        ELSE mpc' = "loop" /\ merr' = merr /\ ri' = ri + 1
  /\ UNCHANGED <<inputs, enginevars, args, responses, tables, tables0,
                 mGrid, mFit, mSeen, processed>>

\* Line 165: the list of responses is exhausted; main returns.
MainLoopEnd ==
  /\ mpc = "loop" /\ ri > Len(responses)
  /\ mpc' = "done"
  /\ UNCHANGED <<inputs, enginevars, rng, args, responses, ri, tables,
                 tables0, mGrid, mFit, mSeen, processed, bootInvoked, merr>>
  /\ UNCHANGED caches

Next ==
  \/ Start
  \/ SkipSeed
  \/ LegacySeed
  \/ ComputeSeed
  \/ SeedRaises
  \/ ToCsvHeader
  \/ ToCsvRow
  \/ LoopEnd
  \/ Kill
  \/ KillInWrite
  \/ MainParse
  \/ MainRead
  \/ MainRefit
  \/ MainRefitRaises
  \/ MainNoBootstrap
  \/ MainCallBootstrap
  \/ MainLoopEnd

Spec == Init /\ [][Next]_vars

\* A run that is not terminated goes on: the interpreter executes the next
\* statement of the loop.
LoopStep ==
  \/ SkipSeed
  \/ LegacySeed
  \/ ComputeSeed
  \/ SeedRaises
  \/ ToCsvHeader
  \/ ToCsvRow
  \/ LoopEnd

SpecLive == Init /\ [][Next]_vars /\ WF_vars(LoopStep)

TypeOK ==
  /\ pc \in {"idle", "loop", "write", "done", "failed", "loaderror",
            "nameerror", "killed"}
  /\ module_globals \in EngineGlobals \cup MainGlobals
  /\ b \in 0 .. num_samples
  /\ runs \in 0 .. MaxRuns
  /\ kills \in 0 .. MaxKills

\* ----------------------------------------------------------------- claims
AllSeeds == 0 .. (num_samples - 1)

\* Seeds of the rows of a file (none when it has no seed column).
FileSeeds(f) ==
  IF SeedCol \in f.cols
  THEN SeedsOf(read_csv(f))
  ELSE {}

\* The seed in progress has been appended and is being persisted, and it was
\* taken from the legacy cache.
LegacyAppended == pc = "write" /\ b \in old_precomputed

\* C1 (as stated): the record appended for a seed that is in the legacy cache
\* and not in the current cache has the legacy record's coefficient values,
\* and neither grid search nor any fit, refit included, ran for that seed.
C1_LegacyVerbatim ==
  LegacyAppended =>
    /\ \A c \in old_coeffs.cols \ {SeedCol} :
         /\ c \in DOMAIN lastRec
         /\ lastRec[c] = LegacyParams(old_coeffs, b)[c]
    /\ b \notin gridCalls \cup regCalls \cup refitCalls

\* C2: a seed that was in the current cache when the run started is skipped:
\* no resample, grid search, fit, refit or append happens for it; a run that
\* started on a cache holding every seed of [0, N) performs no fit and leaves
\* the cache file as it was and the in-memory cache as it was loaded.
C2_PrecomputedSkipped ==
  pc \in {"loop", "write", "done", "failed", "killed"} =>
    /\ precomputed \cap
         (resampled \cup gridCalls \cup regCalls \cup refitCalls \cup appended)
         = {}
    /\ AllSeeds \subseteq precomputed =>
         /\ disk = diskAtStart
         /\ gridCalls \cup regCalls \cup refitCalls \cup appended = {}
         /\ coeffs = LoadCache(diskAtStart).df

\* A second run went through a cache that already held every seed.
C2_Witness ==
  /\ pc = "done" /\ runs = 2
  /\ AllSeeds \subseteq precomputed
  /\ Len(disk.rows) = num_samples

\* One uninterrupted run over [0, k) from an empty cache, with the legacy
\* cache and the data of this run.
Uninterrupted(k) ==
  cte_boostrap_loop(EmptyDF, {}, LoadCache(legacy).df, LoadCache(legacy).pre,
                    data, eor, rng, 0, k)

\* The cache file when seeds 0 .. k-1 have been persisted from an empty
\* cache.
PersistedUpTo(k) == IF k = 0 THEN NoFile ELSE to_csv(Uninterrupted(k).df)

\* The run started on the cache file that holds seeds 0 .. k-1, persisted
\* from an empty cache.
ResumedAfter(k) == ~Uninterrupted(k).exc /\ diskAtStart = PersistedUpTo(k)

C4_PersistedAfterEachSeed ==
  /\ pc = "loop" =>
       /\ LoadCache(disk).df = coeffs
       /\ Len(coeffs.rows) =
            Len(LoadCache(diskAtStart).df.rows) + Cardinality(appended)
  /\ pc = "killed" => FileSeeds(good) \subseteq FileSeeds(disk)

\* C5 (as stated): within a run the loop variable never decreases, a seed
\* whose record was persisted is never computed again, by this run or a later
\* one, and outside of a write the cache file holds every seed that was ever
\* persisted.
C5_PersistedOnlyGrows ==
  /\ [][runs' = runs => b' >= b]_vars
  /\ [][\A s \in appended' \ appended : s \notin everPersisted]_vars
  /\ [][pc' # "write" => everPersisted \subseteq FileSeeds(disk')]_vars

\* C6: when a routine raises for seed b the run halts at b: no later seed is
\* processed, no record for b is appended or written, nothing replaces the
\* failure, and the cache file is the one left by the last completed seed.
C6_FailureHalts ==
  /\ raised # {} => pc = "failed" /\ raised = {b}
  /\ pc = "failed" =>
       /\ disk = good
       /\ b \notin appended
       /\ b \notin SeedsOf(coeffs)
       /\ b \notin FileSeeds(disk)
       /\ Len(coeffs.rows) =
            Len(LoadCache(diskAtStart).df.rows) + Cardinality(appended)
       /\ \A s \in resampled : s <= b

\* A seed failed after another seed of the same run had been persisted.
C6_Witness ==
  /\ pc = "failed" /\ raised = {b}
  /\ appended # {}
  /\ disk = to_csv(coeffs)

\* C7 (as stated): after a termination the cache file is either the complete
\* cache of before the seed in progress or the complete cache of after it.
C7_NeverHalfWritten ==
  pc = "killed" => disk = good \/ disk = to_csv(coeffs)

\* No two rows carry the same seed; a row whose seed cell is empty carries
\* none.
UniqueSeeds(rows) ==
  \A i, j \in 1 .. Len(rows) :
    (rows[i][SeedCol] = rows[j][SeedCol] /\ rows[i][SeedCol] # NaN) => i = j

\* The runs started from an empty cache: there was no cache file before the
\* first run, or the file that an uninterrupted run from an empty cache
\* wrote.
FromEmptyCache == initDisk = NoFile \/ initDisk = LongCacheFile

\* C8 (as stated): after any sequence of runs, complete, interrupted or
\* resumed, that started from an empty cache, no two records of the
\* in-memory cache or of the cache file carry the same seed.
C8_SeedsUnique ==
  FromEmptyCache =>
    /\ UniqueSeeds(coeffs.rows)
    /\ (pc # "write" /\ SeedCol \in read_csv(disk).cols) =>
         UniqueSeeds(read_csv(disk).rows)

\* C9 (as stated): every appended record, computed or taken from the legacy
\* cache, has as keys the columns of the design matrix plus seed.
C9_RecordSchema ==
  appended # {} => DOMAIN lastRec = Xcols \cup {SeedCol}

\* The columns of a cache file differ from the current predictor set.
SchemaMismatch(f) ==
  f.kind = "csv" /\ DropUnnamed(read_csv(f)).cols # Xcols \cup {SeedCol}

\* C10 (as stated): a run that started with a current or legacy cache whose
\* columns differ from the predictor set does not go through the range and
\* leaves the cache file as it was.
C10_SchemaMismatchAborts ==
  (pc \in {"loop", "done"} /\
   (SchemaMismatch(diskAtStart) \/ SchemaMismatch(legacy)))
    => disk = diskAtStart /\ pc # "done"

\* The first-stage coefficients of the seed in progress: the legacy row or
\* the regularized fit.
CurrentParams ==
  IF b \in old_precomputed
  THEN LegacyParams(old_coeffs, b)
  ELSE fit_regularized(data, b)

\* The seed in progress got first-stage coefficients that are all zero.
EmptySelection ==
  /\ pc \in {"write", "failed"}
  /\ b \in resampled
  /\ b \in old_precomputed \/ (b \in regCalls /\ ~FitRegularizedRaises(data, b))
  /\ \A c \in DOMAIN CurrentParams : CurrentParams[c] = 0

\* C11 (as stated): when no coefficient of the regularized result is nonzero
\* the unregularized refit is not invoked, so it cannot raise, and a record
\* that is appended is all zero with seed = b.
C11_EmptySelectionSkipsRefit ==
  EmptySelection =>
    /\ b \notin refitCalls
    /\ pc = "write" =>
         lastRec = WithSeed([c \in DOMAIN CurrentParams |-> 0], b)

\* C15 (as stated): within one run grid search is invoked at most once.
C15_GridSearchOnce == Cardinality(gridCalls) <= 1

\* The record that lines 76-98 build for a computed seed s: 0 for a column
\* whose regularized coefficient is 0, the refit coefficient otherwise.
RefitRecord(s) ==
  LET rp == fit_regularized(data, s)
      sel == {c \in Xcols : rp[c] # 0}
  IN [c \in Xcols |-> IF c \in sel THEN OLSFit(data, s, sel)[c] ELSE 0]

\* The rows of a frame or file that this run computed, not taken from the
\* legacy cache.
ComputedRows(rows) ==
  {i \in 1 .. Len(rows) :
     rows[i][SeedCol] \in appended \ old_precomputed}

\* C16: the record of a computed seed, in memory and read from the cache file, has 0
\* in every column whose regularized coefficient is 0 and the coefficient of
\* the refit on the selected columns in every other column.
C16_ComputedRecordIsRefit ==
  /\ \A i \in ComputedRows(coeffs.rows) : \A c \in Xcols :
       coeffs.rows[i][c] = RefitRecord(coeffs.rows[i][SeedCol])[c]
  /\ pc \in {"loop", "done"} =>
       \A i \in ComputedRows(read_csv(disk).rows) : \A c \in Xcols :
         read_csv(disk).rows[i][c] =
           RefitRecord(read_csv(disk).rows[i][SeedCol])[c]

\* A computed record with a nonselected column and a selected column whose
\* refit coefficient differs from the regularized one has been persisted.
C16_Witness ==
  /\ pc = "loop"
  /\ \E i \in ComputedRows(read_csv(disk).rows) :
       LET s == read_csv(disk).rows[i][SeedCol]
       IN \E c1, c2 \in Xcols :
            /\ fit_regularized(data, s)[c1] = 0
            /\ fit_regularized(data, s)[c2] # 0
            /\ read_csv(disk).rows[i][c2] # fit_regularized(data, s)[c2]

\* C14: no step of any run writes, modifies or deletes the legacy cache file.
C14_LegacyReadOnly == [][legacy' = legacy]_vars

\* A run that took a seed from a legacy cache has rewritten the current cache
\* file and finished.
C14_Witness ==
  /\ pc = "done"
  /\ legacy # NoFile
  /\ appended \cap old_precomputed # {}
  /\ disk # diskAtStart

\* C19 (as stated): a run that ends other than by the failure of a seed's
\* computation or by being terminated has reached the end of the range, and
\* the cache file then holds the whole in-memory cache with a record for
\* every seed of [0, N); a run in its loop does end.
C19_RunCompletes ==
  /\ [](pc \in {"done", "nameerror"} =>
         AllSeeds \subseteq FileSeeds(disk) /\ disk = good)
  /\ (pc \in {"loop", "write"}) ~> (pc \in {"done", "failed", "killed"})

\* The bootstrap step of the response at index i is behind main.
PastBootstrap(i) == i < ri

\* C12 (as stated): with the bootstrap flag set, the engine is invoked for
\* every response once its refit-or-read step is done, and the call does not
\* fail on a name; with the flag not set the engine is never invoked and no
\* cache file is touched.
C12_BootstrapInvokesEngine ==
  entry = "main" =>
    /\ merr # "NameError"
    /\ args.bootstrap =>
         \A i \in 1 .. Len(responses) :
           PastBootstrap(i) => responses[i] \in bootInvoked
    /\ ~args.bootstrap =>
         /\ bootInvoked = {} /\ disk = initDisk /\ pc = "idle"
         /\ \A r \in ResponseNames : caches[r] = initDisk

\* The category names, lower-cased, as character sequences.
CategoryChars(r) ==
  CASE r = "Yr04_print_knowledge" -> <<"y", "r", "0", "4", "_", "p", "r", "i", "n", "t", "_", "k", "n", "o", "w", "l", "e", "d", "g", "e">>
    [] r = "Yr04_literacy_resources" -> <<"y", "r", "0", "4", "_", "l", "i", "t", "e", "r", "a", "c", "y", "_", "r", "e", "s", "o", "u", "r", "c", "e", "s">>
    [] r = "Yr04_oral_language" -> <<"y", "r", "0", "4", "_", "o", "r", "a", "l", "_", "l", "a", "n", "g", "u", "a", "g", "e">>
    [] r = "Yr04_print_motivation" -> <<"y", "r", "0", "4", "_", "p", "r", "i", "n", "t", "_", "m", "o", "t", "i", "v", "a", "t", "i", "o", "n">>

\* Main has gone through the resolution of --response.
ResolutionDone == entry = "main" /\ mpc # "idle" /\ merr # "ArgumentTypeError"

\* Nothing has been processed: no step of any response has run.
NothingProcessed ==
  /\ processed = {} /\ bootInvoked = {}
  /\ mGrid = NoCalls /\ mFit = NoCalls
  /\ tables = tables0

\* C13 (as stated): "all" resolves to the four categories; an input that is a
\* substring of a category name resolves to such a category; every other
\* input fails with the unknown-response error and nothing is processed.
C13_SubstringOfCategory ==
  ResolutionDone =>
    LET s == lower(args.response)
        M == {r \in ResponseNames : In(s, CategoryChars(r))}
    IN IF s = <<"a", "l", "l">>
       THEN merr # "ValueError" /\ responses = AllResponses
       ELSE IF M # {}
       THEN merr # "ValueError" /\ Len(responses) = 1 /\ responses[1] \in M
       ELSE merr = "ValueError" /\ NothingProcessed

\* C13 (amended): with s the lower-cased input, "all" resolves to the four
\* categories; otherwise an s that contains "oral" resolves to oral language;
\* otherwise an s that contains "literacy" resolves to literacy resources;
\* otherwise an s that contains "print" and "knowledge" resolves to print
\* knowledge; otherwise an s that contains "print" and "motivation" resolves
\* to print motivation; every other input fails with ValueError and nothing
\* is processed.
C13_KeywordResolution ==
  ResolutionDone =>
    LET s == lower(args.response)
        Has(t) ==
          \E i \in 1 .. Len(s) :
            /\ i + Len(t) - 1 <= Len(s)
            /\ \A k \in 1 .. Len(t) : s[i + k - 1] = t[k]
        expected ==
          IF s = <<"a", "l", "l">> THEN AllResponses
          ELSE IF Has(<<"o", "r", "a", "l">>) THEN <<"Yr04_oral_language">>
          ELSE IF Has(<<"l", "i", "t", "e", "r", "a", "c", "y">>) THEN <<"Yr04_literacy_resources">>
          ELSE IF Has(<<"p", "r", "i", "n", "t">>) /\ Has(<<"k", "n", "o", "w", "l", "e", "d", "g", "e">>)
          THEN <<"Yr04_print_knowledge">>
          ELSE IF Has(<<"p", "r", "i", "n", "t">>) /\ Has(<<"m", "o", "t", "i", "v", "a", "t", "i", "o", "n">>)
          THEN <<"Yr04_print_motivation">>
          ELSE <<>>
    IN /\ responses = expected
       /\ expected = <<>> <=> merr = "ValueError"
       /\ merr = "ValueError" => mpc = "error" /\ NothingProcessed

\* An input that names two categories and is a substring of none was
\* resolved to oral language and processed.
C13_Witness ==
  /\ ResolutionDone /\ mpc = "done"
  /\ args.response = <<"o", "r", "a", "l", " ", "l", "i", "t", "e", "r", "a", "c", "y">>
  /\ responses = <<"Yr04_oral_language">>
  /\ processed = {"Yr04_oral_language"}

\* C17: a response whose refit-or-read step is done has, with the refit flag
\* set, exactly one grid search, one fit and a newly written results table;
\* with the flag not set no grid search and no fit happen and every results
\* table stays as it was; the table of a response whose step is not done is
\* untouched; when main returns every resolved response has been through its
\* step.
C17_RefitOrRead ==
  entry = "main" =>
    /\ \A r \in ResponseNames :
         /\ (args.refit /\ r \in processed) =>
              mGrid[r] = 1 /\ mFit[r] = 1 /\ tables[r] = "new"
         /\ ~args.refit =>
              mGrid[r] = 0 /\ mFit[r] = 0 /\ tables[r] = tables0[r]
         /\ r \notin processed =>
              tables[r] = tables0[r] /\ mGrid[r] <= 1 /\ mFit[r] <= 1
         /\ (r \notin processed /\ merr # "FitError") =>
              mGrid[r] = 0 /\ mFit[r] = 0
    /\ mpc = "done" =>
         processed = {responses[i] : i \in 1 .. Len(responses)}

\* Main returned after refitting the four responses.
C17_Witness ==
  /\ entry = "main" /\ mpc = "done" /\ args.refit
  /\ responses = AllResponses
  /\ \A r \in ResponseNames : tables[r] = "new" /\ mGrid[r] = 1

\* C18 (as stated): the generator state that the grid search and the fits of
\* bootstrap seed s observe is the state one draw after seeding with s,
\* whatever seeds were cached when the run started; the state that the
\* full-data grid search of a response observes in main is the one it
\* observes in the run whose cache files hold every seed, which is the state
\* seeded with the top-level value.
C18_GeneratorStateReproducible ==
  /\ \A s \in DOMAIN rngSeen : rngSeen[s] = [seed |-> s, used |-> 1]
  /\ \A r \in DOMAIN mSeen : mSeen[r] = [seed |-> TopLevelSeed, used |-> 0]

====
